---- MODULE Spec2Model ----
(***************************************************************************)
(* The gesture/telemetry synchronisation hook useGesture                   *)
(* (dashboard/hooks/useGesture.ts): connection manager, event reducer,     *)
(* reconnect and tool-expiry timers.                                       *)
(*                                                                         *)
(* Time is kept as the remaining delay of every pending timer; it elapses  *)
(* in steps of Tick milliseconds and never passes a due timer.             *)
(***************************************************************************)
EXTENDS Integers, Sequences, FiniteSets, TLC

\* ---------------------------------------------------------------- constants

\* config.wsReconnectDelay (default), milliseconds
wsReconnectDelay == 3000
\* config.wsMaxRetries (default)
wsMaxRetries == 5
\* the delay of the setTimeout that clears currentTool, milliseconds
ToolClearDelay == 3000
\* prev.alerts.slice(0, AlertSliceEnd)
AlertSliceEnd == 4
\* HoloGlobe: useState({ width: 800, height: 600 })
DefaultWidth == 800
DefaultHeight == 600

\* ---------------------------------------------------------------- bounds

\* time steps per timer delay
TicksPerDelay == 2
\* sockets that exist at the same time (not yet closed)
MaxSockets == 2
\* reconnect timers pending at the same time
MaxReconnectTimers == 2
\* tool-expiry timers pending at the same time
MaxToolTimers == 2
\* messages parsed and handled in one run
MaxEvents == 7
\* messages parsed and handled in a run that also loses the connection or
\* runs tool timers
MaxSessionEvents == 4
\* outbound commands issued in one run
MaxCommands == 2

Tick == wsReconnectDelay \div TicksPerDelay

\* ---------------------------------------------------------------- state

VARIABLES
    state,            \* the GestureState held by useState
    wsRef,            \* wsRef.current: a socket, or NoSocket
    sockets,          \* readyState of every WebSocket the hook created
    reconnectTimers,  \* pending reconnect timeouts, earliest first; .ref marks
                      \* the one reconnectTimeoutRef.current refers to
    toolTimers,       \* remaining delay of the pending tool-expiry timeouts
    phase,            \* "init" (rendered, effect not run), "mounted", "unmounted"
    lastCallback,     \* the callback that ran in the last step
    retries,          \* reconnect attempts since the last successful open
    toolAge,          \* milliseconds since the record in currentTool was set
    received,         \* the events handleEvent was called with, in order
    outbox,           \* what ws.send was called with: [socket, text], in order
    issued,           \* the sendCommand calls: [text, open], in order
    projection        \* HoloGlobe: the last latLonToScreen call and its result

vars == <<state, wsRef, sockets, reconnectTimers, toolTimers, phase,
          lastCallback, retries, toolAge, received, outbox, issued, projection>>

\* what the hook's callbacks other than sendCommand leave alone
aux == <<outbox, issued, projection>>

NoSocket == 0
Slots == 1..MaxSockets
RetriesCap == wsMaxRetries + 1

Min(a, b) == IF a < b THEN a ELSE b

\* useState<GestureState>({...})
InitialState ==
    [ isConnected |-> FALSE,
      camera      |-> [lat |-> 0, lon |-> 0, altitude |-> 15000000],
      markers     |-> << >>,
      isListening |-> FALSE,
      isSpeaking  |-> FALSE,
      currentTool |-> << >>,
      alerts      |-> << >>,
      lastEvent   |-> << >> ]

Init ==
    /\ state = InitialState
    /\ wsRef = NoSocket
    /\ sockets = [s \in Slots |-> "NONE"]
    /\ reconnectTimers = << >>
    /\ toolTimers = << >>
    /\ phase = "init"
    /\ lastCallback = "none"
    /\ retries = 0
    /\ toolAge = 0
    /\ received = << >>
    /\ outbox = << >>
    /\ issued = << >>
    /\ projection = << >>

\* React applies a state update only while the component is mounted.
setState(new) == IF phase = "unmounted" THEN state ELSE new

\* ---------------------------------------------------------------- connect

\* a slot whose socket does not exist or is closed can hold a new socket
FreeSlots(socks) == {s \in Slots : socks[s] \in {"NONE", "CLOSED"}}
NewSlot(socks) == CHOOSE s \in FreeSlots(socks) : \A t \in FreeSlots(socks) : s <= t

\* if (wsRef.current?.readyState === WebSocket.OPEN) return;
connectReturnsEarly(socks, ref) == ref # NoSocket /\ socks[ref] = "OPEN"

\* connect(): the sockets and wsRef.current it leaves; throws: new WebSocket throws
connect(socks, ref, throws) ==
    IF connectReturnsEarly(socks, ref) \/ throws
    THEN [sockets |-> socks, wsRef |-> ref]
    ELSE [sockets |-> [socks EXCEPT ![NewSlot(socks)] = "CONNECTING"],
          wsRef   |-> NewSlot(socks)]

\* connect() can run: it needs a socket slot only when it creates a socket
CanConnect(socks, ref, throws) ==
    connectReturnsEarly(socks, ref) \/ throws \/ FreeSlots(socks) # {}

\* ---------------------------------------------------------------- timers

\* clearTimeout(reconnectTimeoutRef.current)
clearReconnectTimeout(timers) ==
    SelectSeq(timers, LAMBDA t : ~t.ref)

\* faulty variant of scheduleReconnect: the reconnect is scheduled with no delay
scheduleReconnectNoDelay(timers) ==
    Append([i \in 1..Len(timers) |-> [timers[i] EXCEPT !.ref = FALSE]],
           [rem |-> 0, ref |-> TRUE])

\* reconnectTimeoutRef.current = setTimeout(() => connect(), config.wsReconnectDelay)
scheduleReconnect(timers) ==
    Append([i \in 1..Len(timers) |-> [timers[i] EXCEPT !.ref = FALSE]],
           [rem |-> wsReconnectDelay, ref |-> TRUE])

\* ws.close() on wsRef.current
closeSocket(socks, ref) ==
    IF ref # NoSocket /\ socks[ref] \in {"CONNECTING", "OPEN"}
    THEN [socks EXCEPT ![ref] = "CLOSING"]
    ELSE socks

\* ---------------------------------------------------------------- lifecycle

\* useEffect(() => { connect(); ... }, [connect]) on mount
Mount ==
    /\ phase = "init"
    /\ \E throws \in BOOLEAN :
         /\ CanConnect(sockets, wsRef, throws)
         /\ sockets' = connect(sockets, wsRef, throws).sockets
         /\ wsRef' = connect(sockets, wsRef, throws).wsRef
    /\ phase' = "mounted"
    /\ lastCallback' = "mount"
    /\ UNCHANGED <<aux, state, reconnectTimers, toolTimers, retries, toolAge, received>>

\* the effect's cleanup, run at unmount
Unmount ==
    /\ phase = "mounted"
    /\ reconnectTimers' = clearReconnectTimeout(reconnectTimers)
    /\ sockets' = closeSocket(sockets, wsRef)
    /\ phase' = "unmounted"
    /\ lastCallback' = "cleanup"
    /\ UNCHANGED <<aux, state, wsRef, toolTimers, retries, toolAge, received>>

\* connect changed (wsUrl or onEvent changed, or a development double mount):
\* the cleanup runs, then the effect again, in one commit
EffectRerun ==
    /\ phase = "mounted"
    /\ reconnectTimers' = clearReconnectTimeout(reconnectTimers)
    /\ \E throws \in BOOLEAN :
         LET closed == closeSocket(sockets, wsRef) IN
         /\ CanConnect(closed, wsRef, throws)
         /\ sockets' = connect(closed, wsRef, throws).sockets
         /\ wsRef' = connect(closed, wsRef, throws).wsRef
    /\ lastCallback' = "rerun"
    /\ UNCHANGED <<aux, state, phase, toolTimers, retries, toolAge, received>>

\* ---------------------------------------------------------------- socket callbacks

\* ws.onopen
\* faulty variant of onopen: a new connection starts from the initial view state
onopenResets(st) == [InitialState EXCEPT !.isConnected = TRUE]

\* ws.onopen: the state update
onopen(st) == [st EXCEPT !.isConnected = TRUE]

\* faulty variant of oncloseState: a disconnect resets the view state
oncloseStateResets(st) == InitialState

\* faulty variant of oncloseState: a disconnect also drops the tool record and
\* the listening flag
oncloseStateClearsTool(st) ==
    [st EXCEPT !.isConnected = FALSE, !.currentTool = << >>, !.isListening = FALSE]

\* ws.onclose: the state update
oncloseState(st) == [st EXCEPT !.isConnected = FALSE]

\* the socket opens: readyState OPEN, the open event is dispatched
SocketOpen(s) ==
    /\ sockets[s] = "CONNECTING"
    /\ sockets' = [sockets EXCEPT ![s] = "OPEN"]
    /\ state' = setState(onopen(state))
    /\ retries' = 0
    /\ lastCallback' = "onopen"
    /\ UNCHANGED <<aux, wsRef, reconnectTimers, toolTimers, phase, toolAge, received>>

\* the close event is dispatched to ws.onclose (readyState CLOSED)
CloseEvent(s) ==
    /\ Len(reconnectTimers) < MaxReconnectTimers
    /\ sockets' = [sockets EXCEPT ![s] = "CLOSED"]
    /\ state' = setState(oncloseState(state))
    /\ reconnectTimers' = scheduleReconnect(reconnectTimers)
    /\ lastCallback' = "onclose"
    /\ UNCHANGED <<aux, wsRef, toolTimers, phase, retries, toolAge, received>>

\* the connection fails: an error event (ws.onerror only logs), then the close event
SocketError(s) ==
    /\ sockets[s] \in {"CONNECTING", "OPEN"}
    /\ CloseEvent(s)

\* the peer closes an open connection
SocketClosedByPeer(s) ==
    /\ sockets[s] = "OPEN"
    /\ CloseEvent(s)

\* a close() requested by the cleanup completes
SocketCloseCompletes(s) ==
    /\ sockets[s] = "CLOSING"
    /\ CloseEvent(s)

\* the reconnect timeout fires: () => connect()
ReconnectTimerFires ==
    /\ reconnectTimers # << >>
    /\ Head(reconnectTimers).rem = 0
    /\ reconnectTimers' = Tail(reconnectTimers)
    /\ \E throws \in BOOLEAN :
         /\ CanConnect(sockets, wsRef, throws)
         /\ sockets' = connect(sockets, wsRef, throws).sockets
         /\ wsRef' = connect(sockets, wsRef, throws).wsRef
    /\ retries' = Min(retries + 1, RetriesCap)
    /\ lastCallback' = "reconnect"
    /\ UNCHANGED <<aux, state, toolTimers, phase, toolAge, received>>

\* ---------------------------------------------------------------- reducer

\* a field the payload does not carry reads as undefined
Undefined == "undefined"
Get(data, f) == IF f \in DOMAIN data THEN data[f] ELSE Undefined

\* faulty variant of pushAlert: the slice keeps one entry too many
pushAlertSliceFive(alerts, alert) ==
    <<alert>> \o SubSeq(alerts, 1, Min(AlertSliceEnd + 1, Len(alerts)))

\* faulty variant of pushAlert: the new alert is put last
pushAlertAtEnd(alerts, alert) ==
    SubSeq(alerts, 1, Min(AlertSliceEnd, Len(alerts))) \o <<alert>>

\* [alert, ...alerts.slice(0, 4)]
pushAlert(alerts, alert) ==
    <<alert>> \o SubSeq(alerts, 1, Min(AlertSliceEnd, Len(alerts)))

\* faulty variant of addMarker: the new marker goes to the front
addMarkerFirst(markers, newMarker) == <<newMarker>> \o markers

\* newState.markers = [...prev.markers, newMarker]
addMarker(markers, newMarker) == Append(markers, newMarker)

\* faulty variant of moveCamera: the payload is merged into the old camera, so
\* a targetName the payload omits survives
moveCameraMerge(camera, data) ==
    [lat        |-> Get(data, "lat"),
     lon        |-> Get(data, "lon"),
     altitude   |-> Get(data, "altitude"),
     targetName |-> IF "target_name" \in DOMAIN data THEN data.target_name
                    ELSE Get(camera, "targetName")]

\* newState.camera = { lat, lon, altitude, targetName: event.data.target_name }:
\* built from the payload alone, the old camera is not read
moveCamera(camera, data) ==
    [lat        |-> Get(data, "lat"),
     lon        |-> Get(data, "lon"),
     altitude   |-> Get(data, "altitude"),
     targetName |-> Get(data, "target_name")]

\* faulty variant of initPart: a part the payload lacks is reset
initPartResets(data, part, old) ==
    IF part \in DOMAIN data THEN data[part] ELSE InitialState[part]

\* faulty variant of initPart: the assignment is not guarded, so a part the
\* payload lacks becomes null
initPartUnguarded(data, part, old) ==
    IF part \in DOMAIN data THEN data[part] ELSE << >>

\* if (event.data.camera) newState.camera = event.data.camera, and the same
\* for markers: a part the payload lacks keeps the value of prev
initPart(data, part, old) ==
    IF part \in DOMAIN data THEN data[part] ELSE old

\* faulty variant of setFlag: the event toggles the flag
toggleFlag(st, flag, value) == [st EXCEPT ![flag] = ~st[flag]]

\* newState.isListening = true / false, newState.isSpeaking = true / false
setFlag(st, flag, value) == [st EXCEPT ![flag] = value]

\* faulty variant of noCase: a ZOOM event halves the camera's altitude
zoomCase(newState, event) ==
    IF event.type = "ZOOM"
    THEN [newState EXCEPT !.camera = [@ EXCEPT !.altitude = @ \div 2]]
    ELSE newState

\* the switch has no case for the type (ZOOM, ROTATE, any other string) and no
\* default: newState is returned as built before the switch
noCase(newState, event) == newState

\* the setState updater of handleEvent: (prev) => newState
handleEvent(prev, event) ==
    LET newState == [prev EXCEPT !.lastEvent = <<event>>] IN
    CASE event.type = "INIT" ->
           [newState EXCEPT
              !.camera  = initPart(event.data, "camera", prev.camera),
              !.markers = initPart(event.data, "markers", prev.markers)]
      [] event.type = "MOVE" ->
           [newState EXCEPT !.camera = moveCamera(prev.camera, event.data)]
      [] event.type = "SELECT" ->
           [newState EXCEPT
              !.markers = addMarker(prev.markers,
                                    [lat       |-> Get(event.data, "lat"),
                                     lon       |-> Get(event.data, "lon"),
                                     type      |-> Get(event.data, "marker_type"),
                                     timestamp |-> event.timestamp])]
      [] event.type = "VOICE_START" -> setFlag(newState, "isListening", TRUE)
      [] event.type = "VOICE_END" -> setFlag(newState, "isListening", FALSE)
      [] event.type = "AGENT_SPEAK_START" -> setFlag(newState, "isSpeaking", TRUE)
      [] event.type = "AGENT_SPEAK_END" -> setFlag(newState, "isSpeaking", FALSE)
      [] event.type = "TOOL_EXECUTE" ->
           [newState EXCEPT
              !.currentTool = <<[tool   |-> Get(event.data, "tool"),
                                 status |-> Get(event.data, "status")]>>]
      [] event.type = "ALERT" ->
           [newState EXCEPT
              !.alerts = pushAlert(prev.alerts,
                                   [level     |-> Get(event.data, "level"),
                                    message   |-> Get(event.data, "message"),
                                    timestamp |-> event.timestamp])]
      [] OTHER -> noCase(newState, event)

\* setTimeout(() => setState((s) => ({ ...s, currentTool: null })), 3000),
\* called by the updater of a TOOL_EXECUTE event
scheduleToolClear(timers, event) ==
    IF event.type = "TOOL_EXECUTE" THEN Append(timers, ToolClearDelay) ELSE timers

RECURSIVE FoldEvents(_, _)
\* the reducer applied to the events of a log, first to last
FoldEvents(st, log) ==
    IF log = << >> THEN st
    ELSE FoldEvents(handleEvent(st, Head(log)), Tail(log))

\* faulty variant of clearTool: the callback writes back the state its closure
\* captured when the timer was scheduled (the state made by the TOOL_EXECUTE
\* event that started the oldest pending timer), with currentTool null
clearToolStale(st) ==
    LET tools    == {i \in 1..Len(received) : received[i].type = "TOOL_EXECUTE"}
        starter  == CHOOSE i \in tools :
                        Cardinality({j \in tools : j >= i}) = Len(toolTimers)
        captured == FoldEvents(onopen(InitialState), SubSeq(received, 1, starter))
    IN [captured EXCEPT !.currentTool = << >>]

\* the callback of the tool-expiry timeout
clearTool(st) == [st EXCEPT !.currentTool = << >>]

\* faulty variant of catchParseError: the failed message resets the view state
catchParseErrorResets(st) == InitialState

\* catch (err) { console.error(...) }: JSON.parse threw before handleEvent and
\* onEvent were reached, and the catch only logs
catchParseError(st) == st

\* ws.onmessage with a text that JSON.parse rejects
OnMalformedMessage(s) ==
    /\ sockets[s] = "OPEN"
    /\ state' = catchParseError(state)
    /\ lastCallback' = "parseError"
    /\ UNCHANGED <<aux, wsRef, sockets, reconnectTimers, toolTimers, phase,
                   retries, toolAge, received>>

\* ws.onmessage with the text of event: handleEvent(gestureEvent)
OnMessage(s, event) ==
    /\ sockets[s] = "OPEN"
    /\ Len(received) < MaxEvents
    /\ Len(scheduleToolClear(toolTimers, event)) <= MaxToolTimers
    /\ state' = setState(handleEvent(state, event))
    /\ toolTimers' = IF phase = "unmounted" THEN toolTimers
                     ELSE scheduleToolClear(toolTimers, event)
    /\ toolAge' = IF event.type = "TOOL_EXECUTE" /\ phase # "unmounted"
                  THEN 0 ELSE toolAge
    /\ received' = Append(received, event)
    /\ lastCallback' = "onmessage"
    /\ UNCHANGED <<aux, wsRef, sockets, reconnectTimers, phase, retries>>

\* the tool-expiry timeout fires
ToolTimerFires ==
    /\ toolTimers # << >>
    /\ Head(toolTimers) = 0
    /\ toolTimers' = Tail(toolTimers)
    /\ state' = setState(clearTool(state))
    /\ toolAge' = IF state'.currentTool = << >> THEN 0 ELSE toolAge
    /\ lastCallback' = "toolTimer"
    /\ UNCHANGED <<aux, wsRef, sockets, reconnectTimers, phase, retries, received>>

\* ---------------------------------------------------------------- commands

\* the keys of a command object whose value can be undefined: stopListening's
\* optional transcription
OptionalKeys == {"transcription"}

\* JSON.stringify({ command, ...data }): the spread of data comes after command,
\* and a key whose value is undefined is left out of the text
stringify(command, data) ==
    LET object == data @@ [command |-> command]
        keys   == {k \in DOMAIN object :
                      ~(k \in OptionalKeys /\ object[k] = Undefined)}
    IN [k \in keys |-> object[k]]

\* wsRef.current?.readyState === WebSocket.OPEN
currentSocketOpen(socks, ref) == ref # NoSocket /\ socks[ref] = "OPEN"

\* faulty variant of sendCommand: the text is sent whatever the readyState
sendCommandAlways(out, socks, ref, command, data) ==
    Append(out, [socket |-> ref, text |-> stringify(command, data)])

\* sendCommand: what ws.send has been called with, after the call
sendCommand(out, socks, ref, command, data) ==
    IF currentSocketOpen(socks, ref)
    THEN Append(out, [socket |-> ref, text |-> stringify(command, data)])
    ELSE out

\* faulty variant of Command: the command function also updates the view state
\* itself (an optimistic isListening)
CommandOptimistic(command, data) ==
    /\ Len(issued) < MaxCommands
    /\ outbox' = sendCommand(outbox, sockets, wsRef, command, data)
    /\ issued' = Append(issued, [text   |-> stringify(command, data),
                                 socket |-> wsRef,
                                 open   |-> currentSocketOpen(sockets, wsRef)])
    /\ state' = [state EXCEPT !.isListening = (command = "START_LISTENING")]
    /\ lastCallback' = "command"
    /\ UNCHANGED <<projection, wsRef, sockets, reconnectTimers, toolTimers,
                   phase, retries, toolAge, received>>

\* a call of one of the hook's command functions; issued notes the call, the
\* current socket and whether it was open
Command(command, data) ==
    /\ Len(issued) < MaxCommands
    /\ outbox' = sendCommand(outbox, sockets, wsRef, command, data)
    /\ issued' = Append(issued, [text   |-> stringify(command, data),
                                 socket |-> wsRef,
                                 open   |-> currentSocketOpen(sockets, wsRef)])
    /\ lastCallback' = "command"
    /\ UNCHANGED <<projection, state, wsRef, sockets, reconnectTimers, toolTimers,
                   phase, retries, toolAge, received>>

\* startListening()
StartListening == Command("START_LISTENING", [seq \in {} |-> 0])

\* stopListening(transcription?)
StopListening(transcription) ==
    Command("STOP_LISTENING", [transcription |-> transcription])

\* dropMarker(lat, lon)
DropMarker(lat, lon) == Command("DROP_MARKER", [lat |-> lat, lon |-> lon])

\* ---------------------------------------------------------------- projector

\* HoloGlobe's dimensions state (the initial value; a resize is not modelled)
dimensions == [width |-> DefaultWidth, height |-> DefaultHeight]

\* const radius = Math.min(dimensions.width, dimensions.height) * 0.35
radius == (Min(dimensions.width, dimensions.height) * 35) \div 100

Abs(n) == IF n < 0 THEN -n ELSE n

\* faulty variant of latLonToScreen: the camera longitude is added
latLonToScreenAdds(lat, lon, r, camera) ==
    LET adjustedLon == lon + camera.lon
    IN [x360    |-> 180 * dimensions.width + 2 * adjustedLon * r,
        y360    |-> 180 * dimensions.height - 2 * lat * r,
        visible |-> Abs(adjustedLon) < 90]

\* HoloGlobe.latLonToScreen(lat, lon, radius) with the camera prop. x and y are
\* kept exact in units of 1/360 pixel:
\*   x = width / 2 + (adjustedLon / 180) * radius
\*   y = height / 2 - (lat / 90) * (radius / 2)
\* adjustedLon is the plain difference lon - camera.lon.
latLonToScreen(lat, lon, r, camera) ==
    LET adjustedLon == lon - camera.lon
        adjustedLat == lat
        lonDiff     == Abs(adjustedLon)
    IN [x360    |-> 180 * dimensions.width + 2 * adjustedLon * r,
        y360    |-> 180 * dimensions.height - 2 * adjustedLat * r,
        visible |-> lonDiff < 90]

\* the draw effect projects a point with the camera the hook's state holds
Project(lat, lon) ==
    /\ phase = "mounted"
    /\ projection' = <<[lat |-> lat, lon |-> lon, camera |-> state.camera,
                        result |-> latLonToScreen(lat, lon, radius, state.camera)]>>
    /\ UNCHANGED <<outbox, issued, state, wsRef, sockets, reconnectTimers,
                   toolTimers, phase, lastCallback, retries, toolAge, received>>

\* the draw effect projects the camera target:
\* latLonToScreen(camera.lat, camera.lon, radius)
ProjectCameraTarget == Project(state.camera.lat, state.camera.lon)

\* ---------------------------------------------------------------- time

NoTimerDue ==
    /\ \A i \in 1..Len(reconnectTimers) : reconnectTimers[i].rem >= Tick
    /\ \A i \in 1..Len(toolTimers) : toolTimers[i] >= Tick

\* Tick milliseconds pass; a due timer fires before time passes it
Elapse ==
    /\ NoTimerDue
    /\ reconnectTimers' = [i \in 1..Len(reconnectTimers) |->
                             [reconnectTimers[i] EXCEPT !.rem = @ - Tick]]
    /\ toolTimers' = [i \in 1..Len(toolTimers) |-> toolTimers[i] - Tick]
    /\ toolAge' = IF state.currentTool = << >> THEN 0
                  ELSE Min(toolAge + Tick, ToolClearDelay)
    /\ lastCallback' = "none"
    /\ UNCHANGED <<aux, state, wsRef, sockets, phase, retries, received>>

\* ---------------------------------------------------------------- specifications

\* The connection manager: the effect's lifecycle, the sockets' callbacks, the
\* reconnect timer.
Next ==
    \/ Mount
    \/ Unmount
    \/ EffectRerun
    \/ \E s \in Slots : SocketOpen(s)
    \/ \E s \in Slots : SocketError(s)
    \/ \E s \in Slots : SocketClosedByPeer(s)
    \/ \E s \in Slots : SocketCloseCompletes(s)
    \/ ReconnectTimerFires
    \/ Elapse

Spec == Init /\ [][Next]_vars

\* A pending timeout fires, time passes, and a requested close completes.
FairSpec ==
    /\ Spec
    /\ WF_vars(ReconnectTimerFires)
    /\ WF_vars(Elapse)
    /\ WF_vars(\E s \in Slots : SocketCloseCompletes(s))

ToolNames == {"calculate_supply_needs", "get_weather"}

ToolEvents ==
    { [type |-> "TOOL_EXECUTE", timestamp |-> "t1",
       data |-> [tool |-> t, status |-> "executing"]] : t \in ToolNames }

\* One connection that receives TOOL_EXECUTE events while time passes.
NextTool ==
    \/ Mount
    \/ \E s \in Slots : SocketOpen(s)
    \/ \E s \in Slots : \E e \in ToolEvents : OnMessage(s, e)
    \/ ToolTimerFires
    \/ Elapse

SpecTool == Init /\ [][NextTool]_vars

AlertEvents ==
    { [type |-> "ALERT", timestamp |-> "t1",
       data |-> [level |-> "info", message |-> "m1"]],
      [type |-> "ALERT", timestamp |-> "t1",
       data |-> [level |-> "critical", message |-> "m2"]],
      [type |-> "ALERT", timestamp |-> "t2",
       data |-> [level |-> "info", message |-> "m1"]] }

OtherEvents ==
    { [type |-> "VOICE_START", timestamp |-> "t1", data |-> [x |-> 0]],
      [type |-> "INIT", timestamp |-> "t2",
       data |-> [camera  |-> [lat |-> 10, lon |-> 20, altitude |-> 1000],
                 markers |-> << >>]] }

\* One connection that receives ALERT events among others.
NextAlert ==
    \/ Mount
    \/ \E s \in Slots : SocketOpen(s)
    \/ \E s \in Slots : \E e \in AlertEvents \cup OtherEvents : OnMessage(s, e)
    \/ \E s \in Slots : OnMalformedMessage(s)

SpecAlert == Init /\ [][NextAlert]_vars

MoveEvents ==
    { [type |-> "MOVE", timestamp |-> "t1",
       data |-> [lat |-> 35, lon |-> 139, altitude |-> 5000, target_name |-> "Tokyo"]],
      [type |-> "MOVE", timestamp |-> "t2",
       data |-> [lat |-> -10, lon |-> 20, altitude |-> 900]] }

InitCameraEvents ==
    { [type |-> "INIT", timestamp |-> "t1",
       data |-> [camera |-> [lat |-> 1, lon |-> 2, altitude |-> 3,
                             targetName |-> "Base"]]] }

\* One connection that receives MOVE events, INIT events and malformed texts.
NextMove ==
    \/ Mount
    \/ \E s \in Slots : SocketOpen(s)
    \/ \E s \in Slots : \E e \in MoveEvents \cup InitCameraEvents : OnMessage(s, e)
    \/ \E s \in Slots : OnMalformedMessage(s)

SpecMove == Init /\ [][NextMove]_vars

SelectEvents ==
    { [type |-> "SELECT", timestamp |-> "t1",
       data |-> [lat |-> 10, lon |-> 20, marker_type |-> "hospital"]],
      [type |-> "SELECT", timestamp |-> "t2",
       data |-> [lat |-> -5, lon |-> 30, marker_type |-> "supply"]] }

InitMarkersEvents ==
    { [type |-> "INIT", timestamp |-> "t0",
       data |-> [markers |-> << [lat |-> 0, lon |-> 0, type |-> "base",
                                 timestamp |-> "t0"] >>]] }

\* One connection that receives SELECT events among INIT and VOICE_START events.
NextSelect ==
    \/ Mount
    \/ \E s \in Slots : SocketOpen(s)
    \/ \E s \in Slots :
          \E e \in SelectEvents \cup InitMarkersEvents \cup OtherEvents : OnMessage(s, e)

SpecSelect == Init /\ [][NextSelect]_vars

\* One session: the connection is lost and made again while SELECT, INIT and
\* VOICE_START events arrive.
NextSession ==
    \/ Mount
    \/ \E s \in Slots : SocketOpen(s)
    \/ \E s \in Slots : SocketClosedByPeer(s)
    \/ ReconnectTimerFires
    \/ Elapse
    \/ \E s \in Slots :
          \E e \in SelectEvents \cup InitMarkersEvents \cup OtherEvents :
              Len(received) < MaxSessionEvents /\ OnMessage(s, e)

SpecSession == Init /\ [][NextSession]_vars

\* the eleven kinds of GestureEvent.type
GestureEventTypes ==
    {"INIT", "MOVE", "SELECT", "ZOOM", "ROTATE", "VOICE_START", "VOICE_END",
     "AGENT_SPEAK_START", "AGENT_SPEAK_END", "TOOL_EXECUTE", "ALERT"}

\* parsed messages the GestureEvent type does not describe: a type outside the
\* eleven kinds, and a TOOL_EXECUTE whose data has neither tool nor status
\* (JSON.parse(...) is cast to GestureEvent without a check)
InvalidEvents ==
    { [type |-> "PING", timestamp |-> "t1", data |-> [seq |-> "1"]],
      [type |-> "TOOL_EXECUTE", timestamp |-> "t2", data |-> [seq |-> "2"]] }

ZoomEvents == { [type |-> "ZOOM", timestamp |-> "t3", data |-> [seq |-> "3"]] }

\* One connection that receives valid and invalid parsed messages while time
\* passes.
NextInvalid ==
    \/ Mount
    \/ \E s \in Slots : SocketOpen(s)
    \/ \E s \in Slots :
          \E e \in InvalidEvents \cup ZoomEvents \cup ToolEvents :
              Len(received) < MaxSessionEvents /\ OnMessage(s, e)
    \/ ToolTimerFires
    \/ Elapse

SpecInvalid == Init /\ [][NextInvalid]_vars

Transcriptions == {Undefined, "send water"}

\* The command functions are called while the connection is made, lost and
\* made again.
NextCommand ==
    \/ Mount
    \/ \E s \in Slots : SocketOpen(s)
    \/ \E s \in Slots : SocketClosedByPeer(s)
    \/ ReconnectTimerFires
    \/ Elapse
    \/ StartListening
    \/ \E t \in Transcriptions : StopListening(t)
    \/ DropMarker(35, 139)

SpecCommand == Init /\ [][NextCommand]_vars

\* camera longitudes and the points projected, all within [-180, 180]
CameraLongitudes == {-170, 0, 180}
PointLongitudes == {-180, -135, -90, -45, 0, 45, 90, 135, 170}
PointLatitudes == {0, 45}

CameraMoveEvents ==
    { [type |-> "MOVE", timestamp |-> "t1",
       data |-> [lat |-> 0, lon |-> l, altitude |-> 5000]] : l \in CameraLongitudes }

\* The globe projects points while MOVE events turn the camera.
NextProject ==
    \/ Mount
    \/ \E s \in Slots : SocketOpen(s)
    \/ \E s \in Slots :
          \E e \in CameraMoveEvents :
              Len(received) < MaxSessionEvents /\ OnMessage(s, e)
    \/ \E lat \in PointLatitudes : \E lon \in PointLongitudes : Project(lat, lon)

SpecProject == Init /\ [][NextProject]_vars

\* Messages of several kinds and malformed texts arrive while tool timers run
\* and the connection is lost and made again.
NextOrder ==
    \/ Mount
    \/ \E s \in Slots : SocketOpen(s)
    \/ \E s \in Slots : SocketClosedByPeer(s)
    \/ ReconnectTimerFires
    \/ \E s \in Slots :
          \E e \in ToolEvents \cup MoveEvents :
              Len(received) < MaxSessionEvents /\ OnMessage(s, e)
    \/ \E s \in Slots : OnMalformedMessage(s)
    \/ ToolTimerFires
    \/ Elapse

SpecOrder == Init /\ [][NextOrder]_vars

WriterEvents ==
    {e \in ToolEvents : e.data.tool = "get_weather"}
        \cup {e \in MoveEvents : "target_name" \in DOMAIN e.data}

\* The sources of change of one connection: inbound events, tool timers and
\* the command functions.
NextWriters ==
    \/ Mount
    \/ \E s \in Slots : SocketOpen(s)
    \/ \E s \in Slots :
          \E e \in WriterEvents :
              Len(received) < MaxSessionEvents /\ OnMessage(s, e)
    \/ ToolTimerFires
    \/ Elapse
    \/ StartListening
    \/ DropMarker(35, 139)

SpecWriters == Init /\ [][NextWriters]_vars

\* INIT events with both parts, one part and no part
InitEvents ==
    InitCameraEvents \cup InitMarkersEvents
        \cup {e \in OtherEvents : e.type = "INIT"}
        \cup { [type |-> "INIT", timestamp |-> "t3", data |-> [seq |-> "0"]] }

\* One connection that receives INIT events among MOVE, SELECT and VOICE_START
\* events.
NextInit ==
    \/ Mount
    \/ \E s \in Slots : SocketOpen(s)
    \/ \E s \in Slots :
          \E e \in InitEvents \cup WriterEvents \cup SelectEvents \cup OtherEvents :
              Len(received) < MaxSessionEvents /\ OnMessage(s, e)

SpecInit == Init /\ [][NextInit]_vars

VoiceEvents ==
    { [type |-> t, timestamp |-> "t1", data |-> [seq |-> "1"]] :
        t \in {"VOICE_START", "VOICE_END", "AGENT_SPEAK_START", "AGENT_SPEAK_END"} }

\* One connection that receives the voice and speech events among MOVE
\* events.
NextVoice ==
    \/ Mount
    \/ \E s \in Slots : SocketOpen(s)
    \/ \E s \in Slots :
          \E e \in VoiceEvents \cup {m \in WriterEvents : m.type = "MOVE"} :
              OnMessage(s, e)

SpecVoice == Init /\ [][NextVoice]_vars

ReservedEvents ==
    ZoomEvents \cup { [type |-> "ROTATE", timestamp |-> "t4", data |-> [seq |-> "4"]] }

\* One connection that receives ZOOM and ROTATE events among SELECT, MOVE,
\* TOOL_EXECUTE and VOICE_START events.
NextReserved ==
    \/ Mount
    \/ \E s \in Slots : SocketOpen(s)
    \/ \E s \in Slots :
          \E e \in ReservedEvents \cup WriterEvents \cup SelectEvents \cup OtherEvents :
              Len(received) < MaxSessionEvents /\ OnMessage(s, e)

SpecReserved == Init /\ [][NextReserved]_vars

\* The connection opens, fails, is closed by the peer and is made again
\* while events arrive and tool timers run.
NextFrozen ==
    \/ Mount
    \/ \E s \in Slots : SocketOpen(s)
    \/ \E s \in Slots : SocketError(s)
    \/ \E s \in Slots : SocketClosedByPeer(s)
    \/ ReconnectTimerFires
    \/ \E s \in Slots :
          \E e \in WriterEvents \cup {v \in OtherEvents : v.type = "VOICE_START"} :
              Len(received) < MaxSessionEvents /\ OnMessage(s, e)
    \/ ToolTimerFires
    \/ Elapse

SpecFrozen == Init /\ [][NextFrozen]_vars

\* The globe projects points and the camera target while MOVE events turn the
\* camera.
NextTarget ==
    \/ NextProject
    \/ ProjectCameraTarget

SpecTarget == Init /\ [][NextTarget]_vars

\* ---------------------------------------------------------------- claims

LiveSockets == {s \in Slots : sockets[s] \in {"CONNECTING", "OPEN"}}

\* C1: for two TOOL_EXECUTE events A then B less than 3000 ms apart, the timer
\* started by A never clears the record set by B: currentTool is cleared only
\* when 3000 ms have passed since the record it holds was set.
CE_C1_ToolClearedOnlyAfterDelay ==
    [][(state.currentTool # << >> /\ state'.currentTool = << >>)
         => toolAge >= ToolClearDelay]_vars

\* C2: after the unmount cleanup no reconnect attempt is made: connect() is not
\* invoked by a reconnect timer and no reconnect timer is pending.
CE_C2_NoReconnectAfterTeardown ==
    phase = "unmounted" => (reconnectTimers = << >> /\ lastCallback # "reconnect")

\* C3: connect() is idempotent, so at most one socket of the hook is opening or
\* open in every reachable state.
CE_C3_AtMostOneLiveSocket == Cardinality(LiveSockets) <= 1

\* C4: when a socket closes, isConnected becomes false and exactly one reconnect
\* attempt is scheduled with the configured delay; connect() is called by a
\* reconnect timer only when that delay has fully elapsed, once per timer; a
\* scheduled attempt is dropped only by the effect cleanup; isConnected turns
\* true only in a socket's open callback, so it stays false from the close to
\* the next successful open; and a pending attempt is eventually made (or
\* cancelled by the cleanup).
Thm_C4_CloseSchedulesOneReconnect ==
    /\ [](reconnectTimers # << >>
            => <>(lastCallback \in {"reconnect", "cleanup", "rerun"}))
    /\ [][ /\ (lastCallback' = "onclose") =>
                /\ phase = "mounted" => ~state'.isConnected
                /\ Len(reconnectTimers') = Len(reconnectTimers) + 1
                /\ reconnectTimers'[Len(reconnectTimers')].rem = wsReconnectDelay
                /\ \A i \in 1..Len(reconnectTimers) :
                       reconnectTimers'[i].rem = reconnectTimers[i].rem
           /\ (lastCallback' = "reconnect") =>
                /\ Head(reconnectTimers).rem = 0
                /\ Len(reconnectTimers') = Len(reconnectTimers) - 1
           /\ (Len(reconnectTimers') < Len(reconnectTimers)) =>
                lastCallback' \in {"reconnect", "cleanup", "rerun"}
           /\ (~state.isConnected /\ state'.isConnected) => lastCallback' = "onopen"
          ]_vars

\* C4 witness: a reconnect timer fired its connect() after a close, the hook
\* mounted and still shown as disconnected.
Wit_C4_ReconnectAttempted ==
    /\ lastCallback = "reconnect"
    /\ phase = "mounted"
    /\ retries = 1
    /\ ~state.isConnected
    /\ LiveSockets # {}

\* C5: the number of consecutive reconnect attempts without an intervening
\* successful open never exceeds config.wsMaxRetries.
CE_C5_RetriesCapped == retries <= wsMaxRetries

\* C6: while the hook is mounted, if the endpoint accepts a connection and keeps
\* the socket the hook holds open, isConnected eventually becomes true again.
CE_C6_ConnectedAgain ==
    <>[](phase = "mounted" /\ wsRef # NoSocket /\ sockets[wsRef] = "OPEN")
        => <>[](state.isConnected)

\* C7: every transport error leaves isConnected false and a reconnect attempt
\* scheduled: a mounted hook with no socket opening, open or closing has a
\* reconnect timer pending.
CE_C7_ErrorSchedulesReconnect ==
    (phase = "mounted" /\ \A s \in Slots : sockets[s] \in {"NONE", "CLOSED"})
        => (~state.isConnected /\ reconnectTimers # << >>)

\* C8: on a successful open isConnected is set to true and any pending
\* reconnect timer is reset: right after an open callback no reconnect timer is
\* pending.
CE_C8_OpenResetsReconnectTimer ==
    (lastCallback = "onopen" /\ phase = "mounted")
        => (state.isConnected /\ reconnectTimers = << >>)

\* the ALERT events received so far, oldest first
AlertsReceived == SelectSeq(received, LAMBDA e : e.type = "ALERT")

\* the alert entry of an ALERT event: {level, message, timestamp of the event}
AlertOf(e) ==
    [level |-> e.data.level, message |-> e.data.message, timestamp |-> e.timestamp]

\* C9: alerts.length is at most 5 in every reachable state.
Thm_C9_AlertsAtMostFive == Len(state.alerts) <= 5

\* C9 witness: more than five ALERT events were received and the buffer is full.
Wit_C9_BufferFullAfterOverflow ==
    Len(AlertsReceived) > 5 /\ Len(state.alerts) = 5

\* C10: after n ALERT events alerts holds exactly the last min(n, 5) of them,
\* newest first, each as {level, message, timestamp}.
Thm_C10_AlertsAreLastFiveNewestFirst ==
    LET n == Len(AlertsReceived) IN
    state.alerts = [i \in 1..Min(n, 5) |-> AlertOf(AlertsReceived[n + 1 - i])]

\* C10 witness: an insertion into a full buffer evicted an entry, and the two
\* newest entries differ, so their order shows.
Wit_C10_EvictedAndOrdered ==
    /\ Len(AlertsReceived) > 5
    /\ Len(state.alerts) = 5
    /\ state.alerts[1] # state.alerts[2]
    /\ AlertOf(AlertsReceived[1]) # state.alerts[5]

\* the camera a MOVE payload describes: {lat, lon, altitude, targetName}
PayloadCamera(e) ==
    [lat        |-> e.data.lat,
     lon        |-> e.data.lon,
     altitude   |-> e.data.altitude,
     targetName |-> IF "target_name" \in DOMAIN e.data
                    THEN e.data.target_name ELSE Undefined]

\* event i of the log sets the camera
SetsCamera(i) ==
    \/ received[i].type = "MOVE"
    \/ received[i].type = "INIT" /\ "camera" \in DOMAIN received[i].data

\* C11: after a sequence of MOVE events camera equals exactly the payload
\* {lat, lon, altitude, targetName} of the last MOVE event; no field of an
\* earlier camera, targetName included, survives a MOVE that omits it.
Thm_C11_CameraIsLastMove ==
    \A i \in 1..Len(received) :
        (received[i].type = "MOVE" /\ \A j \in (i + 1)..Len(received) : ~SetsCamera(j))
            => state.camera = PayloadCamera(received[i])

\* C11 witness: a MOVE without target_name was applied after a camera that had
\* a targetName.
Wit_C11_MoveWithoutTargetAfterTarget ==
    /\ Len(received) >= 3
    /\ received[Len(received)].type = "MOVE"
    /\ "target_name" \notin DOMAIN received[Len(received)].data
    /\ "target_name" \in DOMAIN received[Len(received) - 1].data
    /\ received[1].type = "INIT"
    /\ state.camera.targetName = Undefined

\* the marker a SELECT event describes
MarkerOf(e) ==
    [lat |-> e.data.lat, lon |-> e.data.lon, type |-> e.data.marker_type,
     timestamp |-> e.timestamp]

IsSelect(e) == e.type = "SELECT"

\* the markers of the SELECT events of a log, in arrival order
MarkersOfSelects(log) ==
    LET sel == SelectSeq(log, IsSelect) IN [i \in 1..Len(sel) |-> MarkerOf(sel[i])]

\* event i of the log sets the marker list as a whole
SetsMarkers(i) == received[i].type = "INIT" /\ "markers" \in DOMAIN received[i].data

\* C12: N SELECT events make the marker list N longer; the new markers are at
\* the end in arrival order, each built from the payload's lat, lon, kind and
\* the event's timestamp; the markers present before (the initial empty list
\* or the list of the last INIT) are unchanged and keep their order.
Thm_C12_SelectsAppendInOrder ==
    \A k \in 0..Len(received) :
        ((k = 0 \/ SetsMarkers(k)) /\ \A j \in (k + 1)..Len(received) : ~SetsMarkers(j))
            => LET before == IF k = 0 THEN InitialState.markers
                             ELSE received[k].data.markers
                   after  == SubSeq(received, k + 1, Len(received))
               IN /\ state.markers = before \o MarkersOfSelects(after)
                  /\ Len(state.markers) =
                         Len(before) + Cardinality({i \in 1..Len(after) : IsSelect(after[i])})

\* C12 witness: two different SELECT events arrived after an INIT that brought a
\* marker.
Wit_C12_TwoSelectsAfterInit ==
    /\ Len(received) >= 3
    /\ SetsMarkers(Len(received) - 2)
    /\ IsSelect(received[Len(received) - 1])
    /\ IsSelect(received[Len(received)])
    /\ received[Len(received) - 1] # received[Len(received)]
    /\ Len(state.markers) = 3

IsPrefix(p, q) == Len(p) <= Len(q) /\ SubSeq(q, 1, Len(p)) = p

\* this step delivers an INIT event that carries a marker list
InitWithMarkersStep ==
    /\ received' # received
    /\ received'[Len(received')].type = "INIT"
    /\ "markers" \in DOMAIN received'[Len(received')].data

\* C13 as stated: whatever the events (INIT included) and whatever the
\* disconnects and reconnects, the marker list never gets shorter and no stored
\* marker is removed.
CE_C13_MarkersNeverShrink ==
    [][IsPrefix(state.markers, state'.markers)]_vars

\* C13 amended: the marker list loses no marker through a disconnect, a
\* reconnect or any event other than an INIT that carries a marker list; such
\* an INIT replaces the list by the payload's list, which may be shorter.
Thm_C13_MarkersShrinkOnlyByInit ==
    [][IF InitWithMarkersStep
       THEN state'.markers = received'[Len(received')].data.markers
       ELSE IsPrefix(state.markers, state'.markers)]_vars

\* C13 witness: the connection was lost and a reconnect attempted, and the
\* list still holds the marker stored before the disconnect.
Wit_C13_MarkersSurviveReconnect ==
    /\ retries > 0
    /\ ~state.isConnected
    /\ Len(received) = 2
    /\ IsSelect(received[1])
    /\ received[2].type = "VOICE_START"
    /\ state.markers = <<MarkerOf(received[1])>>

\* this step delivers a TOOL_EXECUTE event to the mounted hook
ToolExecuteStep ==
    /\ received' # received
    /\ received'[Len(received')].type = "TOOL_EXECUTE"

\* C14: a TOOL_EXECUTE event makes currentTool its payload {tool, status} at
\* once; with no further TOOL_EXECUTE the record stays for 3000 ms (it is not
\* cleared while younger than that) and is cleared when 3000 ms have passed
\* (time does not pass beyond that with the record still there).
CE_C14_ToolShownForFullDelay ==
    [][/\ ToolExecuteStep =>
            state'.currentTool =
                <<[tool   |-> received'[Len(received')].data.tool,
                   status |-> received'[Len(received')].data.status]>>
       /\ (~ToolExecuteStep /\ state.currentTool # << >> /\ toolAge < ToolClearDelay)
            => state'.currentTool = state.currentTool
       /\ (state.currentTool # << >> /\ toolAge >= ToolClearDelay)
            => lastCallback' # "none"]_vars

\* this step delivers a MOVE event
MoveStep ==
    /\ received' # received
    /\ received'[Len(received')].type = "MOVE"

\* C15: a message that is not valid JSON is dropped: no field of the view state
\* changes (lastEvent included), onEvent is not called (the log of parsed
\* events is as before), no timer is started and the socket stays as it was; a
\* MOVE event delivered right after it is applied as usual.
Thm_C15_MalformedMessageDropped ==
    [][/\ lastCallback' = "parseError" =>
            /\ state' = state
            /\ received' = received
            /\ toolTimers' = toolTimers
            /\ sockets' = sockets
       /\ (lastCallback = "parseError" /\ MoveStep) =>
            /\ state'.camera = PayloadCamera(received'[Len(received')])
            /\ state'.lastEvent = <<received'[Len(received')]>>
            /\ lastCallback' = "onmessage"]_vars

\* C15 witness: a malformed text arrived after a MOVE had set the camera, and
\* the camera and lastEvent are still those of the MOVE.
Wit_C15_MalformedAfterMove ==
    /\ lastCallback = "parseError"
    /\ Len(received) = 1
    /\ received[1].type = "MOVE"
    /\ state.lastEvent = <<received[1]>>
    /\ state.camera = PayloadCamera(received[1])

\* this step delivers a parsed message to handleEvent
DeliveryStep == received' # received

Delivered == received'[Len(received')]

\* C16: a parsed message whose type is not one of the eleven recognized kinds
\* is rejected or ignored: no field of the view state changes.
CE_C16_UnknownTypeIgnored ==
    [][(DeliveryStep /\ Delivered.type \notin GestureEventTypes) => state' = state]_vars

\* the required payload fields of a kind, for the kinds whose payload the
\* events of SpecInvalid can violate
RequiredFields(type) ==
    IF type = "TOOL_EXECUTE" THEN {"tool", "status"} ELSE {}

ViolatesSchema(e) ==
    /\ e.type \in GestureEventTypes
    /\ ~(RequiredFields(e.type) \subseteq DOMAIN e.data)

\* C17: an event of a recognized kind whose payload lacks a required field is
\* discarded with no effect on the state: currentTool never holds a record
\* with a missing field and no expiry timer is started for the event.
CE_C17_SchemaViolationDiscarded ==
    [][/\ (DeliveryStep /\ ViolatesSchema(Delivered)) =>
            (state' = state /\ toolTimers' = toolTimers)
       /\ state'.currentTool # << >> =>
            (state'.currentTool[1].tool # Undefined /\
             state'.currentTool[1].status # Undefined)]_vars

\* the calls of ws.send that the issued commands account for: one per command
\* issued while the current socket was open, on that socket, in order
ExpectedOutbox ==
    LET open(c) == c.open
        sent    == SelectSeq(issued, open)
    IN [i \in 1..Len(sent) |-> [socket |-> sent[i].socket, text |-> sent[i].text]]

\* C18: a command issued while the hook's current socket is not open is dropped
\* and not queued: nothing is transmitted for it, then or after a later
\* reconnect (only a command call adds to what was sent); a command issued
\* while the socket is open is sent exactly once, on that socket.
Thm_C18_CommandsSentOnlyWhenOpen ==
    /\ [](outbox = ExpectedOutbox)
    /\ [][/\ issued' = issued => outbox' = outbox
          /\ issued' # issued =>
               LET c == issued'[Len(issued')] IN
               outbox' = IF c.open
                         THEN Append(outbox, [socket |-> c.socket, text |-> c.text])
                         ELSE outbox]_vars

\* C18 witness: a command was dropped while disconnected, the connection came
\* back, and a second command was sent once while the dropped one never was.
Wit_C18_DroppedThenSent ==
    /\ Len(issued) = 2
    /\ ~issued[1].open
    /\ issued[2].open
    /\ issued[1].text # issued[2].text
    /\ issued[1].text.command = "STOP_LISTENING"
    /\ outbox = <<[socket |-> issued[2].socket, text |-> issued[2].text]>>

\* an angle brought into (-180, 180] by whole turns
NormalizeAngle(d) == ((d + 179) % 360) - 179

\* C19: for camera and point longitudes in [-180, 180] the projector answers
\* visible exactly when lon - camera.lon, normalized into (-180, 180], is less
\* than 90 in absolute value: lon 170 seen from camera.lon -170 is visible, an
\* offset of 45 is visible, offsets of 90 and of 135 are not.
CE_C19_VisibleIffNormalizedOffsetBelow90 ==
    projection # << >> =>
        LET p == projection[1] IN
        p.result.visible <=> (Abs(NormalizeAngle(p.lon - p.camera.lon)) < 90)

\* the view state that the parsed messages alone determine
Folded == FoldEvents(InitialState, received)

LastParsed == IF received = << >> THEN << >> ELSE <<received[Len(received)]>>

\* C20 as stated: after any interleaving of messages, tool-expiry timers and
\* connection callbacks, the view state (apart from the connection flag, which
\* no message sets) equals the fold of the reducer over the parsed messages in
\* delivery order, and lastEvent is the last parsed message.
CE_C20_StateIsFoldOfMessages ==
    /\ [state EXCEPT !.isConnected = Folded.isConnected] = Folded
    /\ state.lastEvent = LastParsed

\* C20 amended: the fields the messages determine (camera, markers,
\* isListening, isSpeaking, alerts, lastEvent) equal the fold of the reducer
\* over the parsed messages in delivery order; currentTool is the fold's value
\* or null, once an expiry timer has fired; isConnected is set by the
\* connection callbacks alone; lastEvent is the last parsed message.
Thm_C20_StateIsFoldExceptToolExpiry ==
    /\ [state EXCEPT !.isConnected = Folded.isConnected,
                     !.currentTool = Folded.currentTool] = Folded
    /\ state.currentTool \in {Folded.currentTool, << >>}
    /\ state.lastEvent = LastParsed

\* C20 witness: two tool events and two moves were delivered, a timer has
\* cleared the tool record, the connection is lost, and the camera is the one
\* of the last MOVE.
Wit_C20_FoldAfterTimerAndClose ==
    /\ Len(received) = 4
    /\ received[1].type = "TOOL_EXECUTE"
    /\ received[2].type = "MOVE"
    /\ received[3].type = "TOOL_EXECUTE"
    /\ received[4].type = "MOVE"
    /\ received[2] # received[4]
    /\ Folded.currentTool # << >>
    /\ state.currentTool = << >>
    /\ ~state.isConnected
    /\ lastCallback = "onclose"
    /\ state.camera = PayloadCamera(received[4])

\* the fields of the view state that inbound events set
EventFields ==
    {"camera", "markers", "isListening", "isSpeaking", "alerts", "lastEvent"}

\* this step is a call of a command function
CommandStep == issued' # issued

\* C21: the command functions never change the view state; camera, markers,
\* isListening, isSpeaking, alerts and lastEvent change only in a step that
\* applies an inbound event, and currentTool only in such a step or when a
\* tool-expiry timer fires.
Thm_C21_OnlyReducerWritesState ==
    [][/\ CommandStep => state' = state
       /\ (\E f \in EventFields : state'[f] # state[f]) => DeliveryStep
       /\ state'.currentTool # state.currentTool =>
              (DeliveryStep \/ lastCallback' = "toolTimer")]_vars

\* C21 witness: commands were issued and sent after events had set the camera
\* and the tool record, and the view state is still what the events made it.
Wit_C21_CommandsLeaveState ==
    /\ lastCallback = "command"
    /\ Len(issued) = 2
    /\ issued[1].text.command = "START_LISTENING"
    /\ issued[2].text.command = "DROP_MARKER"
    /\ Len(outbox) = 2
    /\ ~state.isListening
    /\ state.markers = << >>
    /\ state.currentTool # << >>
    /\ Len(received) = 2
    /\ received[2].type = "MOVE"
    /\ state.camera = PayloadCamera(received[2])

\* C22: an INIT event replaces camera by the payload's camera if the payload
\* has one and the marker list by the payload's markers if it has them; a part
\* the payload lacks stays as it was, lastEvent becomes the event, and no other
\* field changes.
Thm_C22_InitReplacesPresentParts ==
    [][(DeliveryStep /\ Delivered.type = "INIT") =>
          /\ state'.camera = IF "camera" \in DOMAIN Delivered.data
                             THEN Delivered.data.camera ELSE state.camera
          /\ state'.markers = IF "markers" \in DOMAIN Delivered.data
                              THEN Delivered.data.markers ELSE state.markers
          /\ state'.lastEvent = <<Delivered>>
          /\ state' = [state EXCEPT !.camera = state'.camera,
                                    !.markers = state'.markers,
                                    !.lastEvent = state'.lastEvent]]_vars

\* C22 witness: an INIT with a camera and no markers arrived after SELECT
\* events; the camera is the payload's and the two markers are still there.
Wit_C22_InitCameraKeepsMarkers ==
    /\ Len(received) = 4
    /\ received[4].type = "INIT"
    /\ DOMAIN received[4].data = {"camera"}
    /\ received[3].type = "VOICE_START"
    /\ state.camera = received[4].data.camera
    /\ Len(state.markers) = 2
    /\ state.isListening
    /\ state.lastEvent = <<received[4]>>

\* the value the last event of a pair of kinds gave its flag, FALSE if no event
\* of the pair has arrived
LastOfPair(startType, endType) ==
    LET own == {i \in 1..Len(received) : received[i].type \in {startType, endType}}
    IN IF own = {} THEN FALSE
       ELSE received[CHOOSE i \in own : \A j \in own : j <= i].type = startType

\* C23: VOICE_START / VOICE_END set isListening to true / false and
\* AGENT_SPEAK_START / AGENT_SPEAK_END set isSpeaking to true / false, each
\* idempotently: after any events each flag is what the last event of its own
\* pair set (false if none), whatever events of other kinds arrived.
Thm_C23_FlagsFollowLastOfPair ==
    /\ state.isListening = LastOfPair("VOICE_START", "VOICE_END")
    /\ state.isSpeaking = LastOfPair("AGENT_SPEAK_START", "AGENT_SPEAK_END")

\* C23 witness: VOICE_START arrived twice in a row, then events of other kinds
\* and an AGENT_SPEAK_END; isListening is still true and isSpeaking false.
Wit_C23_RepeatedStartStaysTrue ==
    /\ Len(received) = 5
    /\ received[1].type = "AGENT_SPEAK_START"
    /\ received[2].type = "VOICE_START"
    /\ received[3].type = "VOICE_START"
    /\ received[4].type = "MOVE"
    /\ received[5].type = "AGENT_SPEAK_END"
    /\ state.isListening
    /\ ~state.isSpeaking

\* C24: camera is never null: from the initial value on, and after the first
\* INIT whatever INIT, MOVE or other events follow, camera is a record with
\* fields.
Thm_C24_CameraNeverNull == DOMAIN state.camera # {}

\* C24 witness: after a first INIT with a camera, an INIT without a camera and
\* a SELECT arrived; camera is still the record of the first INIT.
Wit_C24_CameraKeptByInitWithoutCamera ==
    /\ Len(received) = 3
    /\ received[1].type = "INIT"
    /\ "camera" \in DOMAIN received[1].data
    /\ received[2].type = "INIT"
    /\ "camera" \notin DOMAIN received[2].data
    /\ received[3].type = "SELECT"
    /\ state.camera = received[1].data.camera

\* C25: a ZOOM or ROTATE event changes nothing in the model but lastEvent:
\* camera, markers, isListening, isSpeaking, currentTool, alerts and
\* isConnected stay as they were and the event is recorded as lastEvent.
Thm_C25_ZoomRotateOnlyLastEvent ==
    [][(DeliveryStep /\ Delivered.type \in {"ZOOM", "ROTATE"}) =>
          /\ state' = [state EXCEPT !.lastEvent = <<Delivered>>]
          /\ toolTimers' = toolTimers]_vars

\* C25 witness: a ZOOM and a ROTATE arrived after a MOVE and a TOOL_EXECUTE;
\* the camera and the tool record are still those events' and lastEvent is the
\* ROTATE.
Wit_C25_RotateAfterMoveAndTool ==
    /\ Len(received) = 4
    /\ received[1].type = "MOVE"
    /\ received[2].type = "TOOL_EXECUTE"
    /\ received[3].type = "ZOOM"
    /\ received[4].type = "ROTATE"
    /\ state.camera = PayloadCamera(received[1])
    /\ state.currentTool # << >>
    /\ state.lastEvent = <<received[4]>>

\* no socket has an open or close callback still to be delivered
NoCallbackPending == \A s \in Slots : sockets[s] \notin {"CONNECTING", "CLOSING"}

\* C26: isConnected reflects the live socket: while the hook is mounted and no
\* socket callback is pending, isConnected is true exactly when the socket in
\* wsRef.current is open, also after the effect was cleaned up and re-run and
\* the old socket's close callback came after the new socket's open.
CE_C26_ConnectedIffCurrentSocketOpen ==
    (phase = "mounted" /\ NoCallbackPending)
        => (state.isConnected <=> currentSocketOpen(sockets, wsRef))

\* C27: at most one reconnect timer is pending at any time and
\* reconnectTimeoutRef holds its handle, so the cleanup's clearTimeout of that
\* handle leaves no reconnect scheduled.
CE_C27_OneReferencedReconnectTimer ==
    /\ Len(reconnectTimers) <= 1
    /\ \A i \in 1..Len(reconnectTimers) : reconnectTimers[i].ref
    /\ lastCallback = "cleanup" => reconnectTimers = << >>

\* C28: the connection callbacks change only isConnected: an open, a close or
\* an error leaves camera, markers, isListening, isSpeaking, currentTool,
\* alerts and lastEvent as they were, and neither a reconnect attempt nor the
\* passing of time changes the view state, so the view is kept across a
\* disconnect and a reconnect.
Thm_C28_CallbacksChangeOnlyIsConnected ==
    [][/\ lastCallback' = "onopen" => state' = [state EXCEPT !.isConnected = TRUE]
       /\ lastCallback' = "onclose" => state' = [state EXCEPT !.isConnected = FALSE]
       /\ lastCallback' \in {"reconnect", "none"} => state' = state]_vars

\* C28 witness: events set the camera, the listening flag and the tool record,
\* the connection was lost, a reconnect attempt failed, and the view is still
\* what the events made it.
Wit_C28_ViewKeptAcrossFailedReconnect ==
    /\ lastCallback = "onclose"
    /\ retries > 0
    /\ ~state.isConnected
    /\ Len(received) = 3
    /\ received[1].type = "MOVE"
    /\ received[2].type = "VOICE_START"
    /\ received[3].type = "TOOL_EXECUTE"
    /\ state.camera = PayloadCamera(received[1])
    /\ state.isListening
    /\ state.currentTool # << >>
    /\ state.lastEvent = <<received[3]>>

\* C29: a firing tool-expiry timer changes only currentTool, and it is applied
\* to the state current when it fires: what the events and callbacks between
\* the TOOL_EXECUTE and the firing did to camera, markers, alerts, the flags,
\* lastEvent and isConnected is kept.
Thm_C29_ToolTimerChangesOnlyCurrentTool ==
    [][lastCallback' = "toolTimer" =>
          /\ state' = [state EXCEPT !.currentTool = << >>]
          /\ received' = received]_vars

\* C29 witness: a MOVE arrived and the connection was lost between the
\* TOOL_EXECUTE and its timer; after the timer fired the camera and lastEvent
\* are the MOVE's, isConnected is false and the tool record is cleared.
Wit_C29_UpdatesBetweenSurviveTimer ==
    /\ lastCallback = "toolTimer"
    /\ Len(received) = 2
    /\ received[1].type = "TOOL_EXECUTE"
    /\ received[2].type = "MOVE"
    /\ toolTimers = << >>
    /\ state.currentTool = << >>
    /\ state.camera = PayloadCamera(received[2])
    /\ state.lastEvent = <<received[2]>>
    /\ ~state.isConnected

\* C30: the camera target is on the visible hemisphere and horizontally
\* centred: latLonToScreen(camera.lat, camera.lon, radius) gives visible = true
\* and x = width / 2; for any point x is linear in lon - camera.lon and y is
\* linear in lat (x = width/2 + (lon - camera.lon) * radius / 180,
\* y = height/2 - lat * radius / 180, here in units of 1/360 pixel).
Thm_C30_TargetCentredAndLinear ==
    projection # << >> =>
        LET p == projection[1] IN
        /\ (p.lat = p.camera.lat /\ p.lon = p.camera.lon) =>
               (p.result.visible /\ p.result.x360 = 180 * dimensions.width)
        /\ p.result.x360 - 180 * dimensions.width = 2 * radius * (p.lon - p.camera.lon)
        /\ 180 * dimensions.height - p.result.y360 = 2 * radius * p.lat

\* C30 witness: with the camera turned to longitude -170 the camera target is
\* projected: visible, at the horizontal centre.
Wit_C30_TargetOfTurnedCamera ==
    /\ projection # << >>
    /\ projection[1].camera.lon = -170
    /\ projection[1].lon = -170
    /\ projection[1].lat = projection[1].camera.lat
    /\ projection[1].result.visible
    /\ projection[1].result.x360 = 180 * DefaultWidth

====
